---- MODULE Spec2Model ----
(***************************************************************************)
(* State-machine model of ParasiteDataPipeline                             *)
(* (src/parasite_reg/contracts/data-pipeline.py).                          *)
(*                                                                         *)
(* One caller drives the pipeline the way main() does: it awaits           *)
(* prepare_parasite_data, hands the prepared data to submit_to_blockchain, *)
(* and awaits get_record_history.  Optional values (Optional[int], a       *)
(* missing dict entry) are <<>> for None and <<v>> for a present v.        *)
(***************************************************************************)
EXTENDS Integers, Sequences, FiniteSets, TLC

\* ---------------------------------------------------------------- bounds
MaxFiles == 2      \* longest additional_files list
MaxClock == 2      \* readings of datetime.utcnow() that can be told apart
MaxId == 2         \* record identifiers on the ledger are 0..MaxId
MaxSubmits == 2    \* submit_to_blockchain calls on one prepared_data
MaxVersion == 2    \* record.version ranges over 0..MaxVersion

\* walks longer than this are cut: only a cyclic lineage gets that far
MaxHist == MaxId + 2

\* ------------------------------------------------------- program constants
Tries == 3         \* @retry(tries=3, delay=1)

None == <<>>
Some(v) == <<v>>

\* Python truthiness of an Optional[int]: None and 0 are falsy
Truthy(opt) == opt /= None /\ opt[1] /= 0

\* Python truthiness of an Optional[List[str]]: None and [] are falsy
TruthyList(opt) == opt /= None /\ Len(opt[1]) > 0

Ids == 0 .. MaxId
OptIds == {None} \cup {Some(i) : i \in Ids}

\* ---------------------------------------------------------------- inputs
Names == {"", "Plasmodium falciparum"}
Classifications == {"", "Apicomplexan"}
Locations == {"", "Sub-Saharan Africa"}
\* record.metadata: a dict, or a value of another type
Metadatas == {[type |-> "dict", prevalence |-> "high"],
              [type |-> "list", prevalence |-> "high"]}
Researchers == {"DR_SMITH"}
Institutions == {"WHO_AFRICA"}

ParasiteStatus == {"Active", "Archived", "Updated"}

ParasiteRecord ==
    [parasite_name : Names, classification : Classifications,
     location : Locations, metadata : Metadatas,
     researcher : Researchers, institution : Institutions,
     status : {"Active"}, version : 0 .. MaxVersion,
     previous_version : {None, Some(1)}]

\* file paths; NotAStr stands for an element that is not a str, on which
\* file_path.encode() raises
NotAStr == "<not-a-str>"
Paths == {"genome_data.fastq", "image.png", NotAStr}

SeqsUpTo(S, n) == UNION {[1 .. k -> S] : k \in 0 .. n}
FileLists == {None} \cup {Some(fs) : fs \in SeqsUpTo(Paths, MaxFiles)}

\* update_existing arguments of submit_to_blockchain
UpdateTargets == {None, Some(0), Some(42)}

\* ---------------------------------------------------------------- state
VARIABLES
    pc,               \* where the awaited coroutine of the caller stands
    clock,            \* what datetime.utcnow() returns now
    record,           \* the ParasiteRecord passed to prepare_parasite_data
    additional_files, \* the additional_files argument
    attempts,         \* calls of the decorated function made by @retry
    validations,      \* runs of _validate_record in this call
    executor,         \* the ThreadPoolExecutor of the with block, while it lives
    futures,          \* executor.map: index -> None (running) or Some(result)
    completed,        \* indices of the uploads in completion order
    ipfs_hashes,      \* local ipfs_hashes of prepare_parasite_data
    tsReads,          \* evaluations of datetime.utcnow() in this call
    prepared,         \* the dict returned by prepare_parasite_data
    update_existing,  \* the update_existing argument
    ledgerMode,       \* how the ledger client answers: "ok" or "transient"
    contract_call,    \* local contract_call of submit_to_blockchain
    calls,            \* every contract_call built from this prepared data
    ledgerLog,        \* calls the ledger client received in this submit
    submitted,        \* the value returned by submit_to_blockchain
    raised,           \* the exception the awaited call raised
    store,            \* ledger contents: id -> previous_version
    record_id,        \* the record_id argument of get_record_history
    current_id,       \* local current_id of get_record_history
    history,          \* local history of get_record_history
    fetches,          \* _fetch_record calls of this resolution
    cache,            \* self.cache
    contract_address, \* self.contract_address
    contract_name     \* self.contract_name

prepVars == <<record, additional_files, attempts, validations, executor, futures,
              completed, ipfs_hashes, tsReads, prepared>>
subVars == <<update_existing, ledgerMode, contract_call, calls, ledgerLog,
             submitted>>
histVars == <<store, record_id, current_id, history, fetches>>
pipeVars == <<cache, contract_address, contract_name>>
vars == <<pc, clock, prepVars, subVars, histVars, raised, pipeVars>>

NoRecord == [parasite_name |-> "", classification |-> "", location |-> "",
             metadata |-> [type |-> "dict", prevalence |-> "high"],
             researcher |-> "DR_SMITH", institution |-> "WHO_AFRICA",
             status |-> "Active", version |-> 1, previous_version |-> None]

EmptyStore == [i \in Ids |-> None]

Init ==
    /\ pc = "idle"
    /\ clock = 0
    /\ record = NoRecord
    /\ additional_files = None
    /\ attempts = 0
    /\ validations = 0
    /\ executor = None
    /\ futures = <<>>
    /\ completed = <<>>
    /\ ipfs_hashes = <<>>
    /\ tsReads = 0
    /\ prepared = None
    /\ update_existing = None
    /\ ledgerMode = "ok"
    /\ contract_call = None
    /\ calls = <<>>
    /\ ledgerLog = <<>>
    /\ submitted = None
    /\ raised = None
    /\ store = EmptyStore
    /\ record_id = None
    /\ current_id = None
    /\ history = <<>>
    /\ fetches = 0
    /\ cache = {}
    /\ contract_address = "ST1PQHQKV0RJXZFY1DGX8MNSNYVE3VGZJSRTPGZGM"
    /\ contract_name = "parasite-registry-v2"

\* ------------------------------------------------------- pure functions
\* _validate_record: None when the record passes, else the ValueError raised
ValidateAcceptAll(r) == None

ValidateRecord(r) ==
    IF r.parasite_name = "" \/ r.classification = "" \/ r.location = ""
    THEN Some("ValueError: Missing required fields in parasite record")
    ELSE IF r.metadata.type /= "dict"
    THEN Some("ValueError: Metadata must be a dictionary")
    ELSE None

\* hashlib.md5(...).hexdigest(): a digest, taken to be collision free
Md5(bytes) == <<"md5", bytes>>

\* _upload_to_ipfs: file_path.encode() raises on a value that is not a str
UploadToIpfs(file_path) ==
    IF file_path = NotAStr
    THEN [ok |-> FALSE, value |-> <<"AttributeError">>]
    ELSE [ok |-> TRUE, value |-> <<"ipfs_hash_", Md5(file_path)>>]

\* the metadata dict assembled by prepare_parasite_data; record.status and
\* record.previous_version are not copied into it.  additional_data is the
\* caller's record.metadata dict itself, not a copy (see CallerMutatesMetadata)
EnvelopeWithoutFiles(r, now, hashes) ==
    [parasite_name |-> r.parasite_name,
     classification |-> r.classification,
     location |-> r.location,
     timestamp |-> <<"isoformat", now>>,
     researcher |-> r.researcher,
     institution |-> r.institution,
     version |-> r.version,
     additional_data |-> r.metadata,
     ipfs_files |-> <<>>]

Envelope(r, now, hashes) ==
    [parasite_name |-> r.parasite_name,
     classification |-> r.classification,
     location |-> r.location,
     timestamp |-> <<"isoformat", now>>,
     researcher |-> r.researcher,
     institution |-> r.institution,
     version |-> r.version,
     additional_data |-> r.metadata,
     ipfs_files |-> hashes]

\* json.dumps(metadata, sort_keys=True).encode(): the key/value pairs in
\* sorted key order, nested dicts likewise
CanonicalJson(m) ==
    << <<"additional_data", << <<"prevalence", m.additional_data.prevalence>> >> >>,
       <<"classification", m.classification>>,
       <<"institution", m.institution>>,
       <<"ipfs_files", m.ipfs_files>>,
       <<"location", m.location>>,
       <<"parasite_name", m.parasite_name>>,
       <<"researcher", m.researcher>>,
       <<"timestamp", m.timestamp>>,
       <<"version", m.version>> >>

\* hashlib.sha256(...).hexdigest(): a digest, taken to be collision free
Sha256(bytes) == <<"sha256", bytes>>

MetadataHash(m) == Sha256(CanonicalJson(m))

\* @retry(tries=3, delay=1) around an async def: the decorator's try block
\* encloses only the call that creates the coroutine object, which never
\* raises; what the body raises surfaces at the caller's await, outside it
RetryCatchesLikeSync(exc) == TRUE

RetryCatches(exc) == FALSE

\* list(executor.map(self._upload_to_ipfs, files)): results are yielded in
\* the order of the inputs, whatever order the workers finish in
MapResultsAsCompleted(fut, done) == [i \in 1 .. Len(done) |-> fut[done[i]][1].value]

MapResults(fut, done) == [i \in 1 .. Len(fut) |-> fut[i][1].value]

\* the first exception executor.map re-raises, in input order
FailedIndexesIgnored(fut) == {}

FailedIndexes(fut) == {i \in 1 .. Len(fut) : ~fut[i][1].ok}
FirstFailure(fut) ==
    LET i == CHOOSE k \in FailedIndexes(fut) : \A j \in FailedIndexes(fut) : k <= j
    IN fut[i][1].value[1]

\* ---------------------------------------------- prepare_parasite_data
\* the caller calls the decorated function: @retry calls the async def once
\* and hands back its coroutine, which the caller awaits
PrepareCall ==
    /\ UNCHANGED pipeVars
    /\ pc = "idle"
    /\ \E r \in ParasiteRecord, fs \in FileLists :
          /\ record' = r
          /\ additional_files' = fs
    /\ attempts' = 1
    /\ pc' = "validate"
    /\ UNCHANGED <<clock, validations, executor, futures, completed, ipfs_hashes,
                   tsReads, prepared, subVars, histVars, raised>>

\* except Exception: log and re-raise; the decorator decides what follows
Raise(exc) ==
    IF RetryCatches(exc) /\ attempts < Tries
    THEN /\ attempts' = attempts + 1
         /\ pc' = "validate"
         /\ raised' = None
    ELSE /\ attempts' = attempts
         /\ pc' = "prepare_raised"
         /\ raised' = Some(exc)

\* self._validate_record(record), then either the upload or the envelope
Validate ==
    /\ UNCHANGED pipeVars
    /\ pc = "validate"
    /\ validations' = validations + 1
    /\ LET err == ValidateRecord(record) IN
       IF err /= None
       THEN /\ Raise(err[1])
            /\ UNCHANGED <<executor, futures, completed, ipfs_hashes>>
       ELSE /\ UNCHANGED <<attempts, raised>>
            /\ IF TruthyList(additional_files)
               THEN /\ pc' = "uploading"
                    /\ executor' = Some("ThreadPoolExecutor")
                    /\ futures' = [i \in 1 .. Len(additional_files[1]) |-> None]
                    /\ completed' = <<>>
                    /\ UNCHANGED ipfs_hashes
               ELSE /\ pc' = "build"
                    /\ ipfs_hashes' = <<>>
                    /\ UNCHANGED <<executor, futures, completed>>
    /\ UNCHANGED <<clock, record, additional_files, tsReads, prepared,
                   subVars, histVars>>

\* one worker of the ThreadPoolExecutor finishes _upload_to_ipfs
UploadComplete ==
    /\ UNCHANGED pipeVars
    /\ pc = "uploading"
    /\ executor /= None
    /\ \E i \in 1 .. Len(futures) :
          /\ futures[i] = None
          /\ futures' = [futures EXCEPT ![i] = Some(UploadToIpfs(additional_files[1][i]))]
          /\ completed' = Append(completed, i)
    /\ UNCHANGED <<pc, clock, record, additional_files, attempts, validations,
                   executor, ipfs_hashes, tsReads, prepared, subVars, histVars,
                   raised>>

\* ThreadPoolExecutor.__exit__: shutdown(wait=True), the pool is gone
PoolLeaked(ex) == ex

PoolAfterExit(ex) == None

\* the with block is left once every worker is done: list(executor.map(..))
\* has either collected every result or re-raised the first failure
UploadJoin ==
    /\ UNCHANGED pipeVars
    /\ pc = "uploading"
    /\ \A i \in 1 .. Len(futures) : futures[i] /= None
    /\ executor' = PoolAfterExit(executor)
    /\ IF FailedIndexes(futures) /= {}
       THEN /\ Raise(FirstFailure(futures))
            /\ UNCHANGED ipfs_hashes
       ELSE /\ ipfs_hashes' = MapResults(futures, completed)
            /\ pc' = "build"
            /\ UNCHANGED <<attempts, raised>>
    /\ UNCHANGED <<clock, record, additional_files, validations, futures,
                   completed, tsReads, prepared, subVars, histVars>>

\* metadata = {...}, metadata_hash = sha256(json.dumps(...)), return
BuildEnvelope ==
    /\ UNCHANGED pipeVars
    /\ pc = "build"
    /\ LET metadata == Envelope(record, clock, ipfs_hashes) IN
       prepared' = Some([metadata |-> metadata,
                         metadata_hash |-> MetadataHash(metadata)])
    /\ tsReads' = tsReads + 1
    /\ pc' = "prepared"
    /\ UNCHANGED <<clock, record, additional_files, attempts, validations,
                   executor, futures, completed, ipfs_hashes, subVars, histVars,
                   raised>>

\* time passes
Tick ==
    /\ UNCHANGED pipeVars
    /\ clock < MaxClock
    /\ clock' = clock + 1
    /\ UNCHANGED <<pc, prepVars, subVars, histVars, raised>>

\* ---------------------------------------------- submit_to_blockchain
\* the caller passes on the dict prepare_parasite_data returned; the ledger
\* client answers in ledgerMode for the length of this call
SubmitCall ==
    /\ UNCHANGED pipeVars
    /\ pc \in {"prepared", "submitted"}
    /\ Len(calls) < MaxSubmits
    /\ \E u \in UpdateTargets, mode \in {"ok", "transient"} :
          /\ update_existing' = u
          /\ ledgerMode' = mode
    /\ contract_call' = None
    /\ ledgerLog' = <<>>
    /\ submitted' = None
    /\ pc' = "submit"
    /\ UNCHANGED <<clock, prepVars, calls, histVars, raised>>

\* "update-parasite-record" if update_existing else "add-parasite-record"
FunctionName(target) ==
    IF Truthy(target) THEN "update-parasite-record" ELSE "add-parasite-record"

\* prepared_data["metadata_hash"], as read by submit_to_blockchain
HashRederived == MetadataHash(Envelope(record, clock, ipfs_hashes))

HashToSubmit == prepared[1].metadata_hash

\* function_args, with update_existing inserted at 0 when it is truthy
FunctionArgs(target) ==
    LET args == << <<prepared[1].metadata.parasite_name>>,
                   <<prepared[1].metadata.classification>>,
                   <<prepared[1].metadata.location>>,
                   HashToSubmit >>
    IN IF Truthy(target) THEN << <<target[1]>> >> \o args ELSE args

\* the body of submit_to_blockchain: it builds contract_call and returns the
\* "Transaction submitted" string; nothing is sent to the ledger client
SubmitBuild ==
    /\ UNCHANGED pipeVars
    /\ pc = "submit"
    /\ LET call == [contract_address |-> contract_address,
                    contract_name |-> contract_name,
                    function_name |-> FunctionName(update_existing),
                    function_args |-> FunctionArgs(update_existing)]
       IN /\ contract_call' = Some(call)
          /\ calls' = Append(calls, call)
    /\ submitted' = Some(<<"Transaction submitted with metadata hash: ", HashToSubmit>>)
    /\ ledgerLog' = ledgerLog
    /\ pc' = "submitted"
    /\ UNCHANGED <<clock, prepVars, update_existing, ledgerMode, histVars, raised>>

\* ------------------------------------------------- get_record_history
Stores == [Ids -> OptIds]

\* _fetch_record, the ledger's get(identifier): the record's fields with its
\* previous_version, when present
FetchRecord(st, id) == [record_id |-> id, previous_version |-> st[id]]

\* history = [], current_id = record_id
HistoryCall ==
    /\ UNCHANGED pipeVars
    /\ pc = "idle"
    /\ \E s \in Ids, st \in Stores :
          /\ record_id' = Some(s)
          /\ current_id' = Some(s)
          /\ store' = st
    /\ history' = <<>>
    /\ fetches' = 0
    /\ pc' = "history_loop"
    /\ UNCHANGED <<clock, prepVars, subVars, raised>>

\* while current_id: the condition of the loop
LoopCondition(id) == Truthy(id)

\* except Exception: log and re-raise: where a failed fetch leaves the call
AfterFetchErrorSwallowed == "history_done"

AfterFetchError == "history_raised"

\* one turn of the loop: fetch, append, follow previous_version; a fetch
\* that fails raises out of the loop
HistoryFetch ==
    /\ UNCHANGED pipeVars
    /\ pc = "history_loop"
    /\ LoopCondition(current_id)
    /\ Len(history) < MaxHist
    /\ fetches' = fetches + 1
    /\ \/ LET rec == FetchRecord(store, current_id[1]) IN
          /\ history' = Append(history, rec)
          /\ current_id' = rec.previous_version
          /\ UNCHANGED <<pc, raised>>
       \/ /\ pc' = AfterFetchError
          /\ raised' = Some("ConnectionError")
          /\ UNCHANGED <<history, current_id>>
    /\ UNCHANGED <<clock, prepVars, subVars, store, record_id>>

\* get_record_history never writes self.cache: the chain it returns is
\* kept nowhere in the pipeline
CacheStoresChain(c, id, chain) == c \cup {<<id, chain>>}

CacheAfterHistory(c, id, chain) == c

\* return history
HistoryReturn ==
    /\ pc = "history_loop"
    /\ ~LoopCondition(current_id)
    /\ pc' = "history_done"
    /\ cache' = CacheAfterHistory(cache, record_id[1], history)
    /\ UNCHANGED <<contract_address, contract_name>>
    /\ UNCHANGED <<clock, prepVars, subVars, histVars, raised>>

\* ------------------------------------------------------------- caller
\* values the caller stores under a key of record.metadata
MetadataValues == {"high", "low"}

\* between its calls the caller changes a value in record.metadata in place;
\* prepared["metadata"]["additional_data"] is that same dict object, so the
\* change shows there too, while metadata_hash stays the string it was
CallerMutatesMetadata ==
    /\ UNCHANGED pipeVars
    /\ pc \in {"prepared", "submitted"}
    /\ \E v \in MetadataValues \ {record.metadata.prevalence} :
          /\ record' = [record EXCEPT !.metadata.prevalence = v]
          /\ prepared' = Some([prepared[1] EXCEPT
                                  !.metadata.additional_data.prevalence = v])
    /\ UNCHANGED <<pc, clock, additional_files, attempts, validations, executor,
                   futures, completed, ipfs_hashes, tsReads, subVars, histVars,
                   raised>>

\* the awaited call is over; the caller goes on to its next call
Finish ==
    /\ UNCHANGED pipeVars
    /\ pc \in {"prepared", "prepare_raised", "submitted", "history_done",
               "history_raised"}
    /\ pc' = "idle"
    /\ record' = NoRecord
    /\ additional_files' = None
    /\ attempts' = 0
    /\ validations' = 0
    /\ executor' = None
    /\ futures' = <<>>
    /\ completed' = <<>>
    /\ ipfs_hashes' = <<>>
    /\ tsReads' = 0
    /\ prepared' = None
    /\ update_existing' = None
    /\ ledgerMode' = "ok"
    /\ contract_call' = None
    /\ calls' = <<>>
    /\ ledgerLog' = <<>>
    /\ submitted' = None
    /\ raised' = None
    /\ store' = EmptyStore
    /\ record_id' = None
    /\ current_id' = None
    /\ history' = <<>>
    /\ fetches' = 0
    /\ UNCHANGED clock

PipelineNext ==
    \/ PrepareCall
    \/ Validate
    \/ UploadComplete
    \/ UploadJoin
    \/ BuildEnvelope
    \/ SubmitCall
    \/ SubmitBuild
    \/ CallerMutatesMetadata
    \/ Tick
    \/ Finish

HistoryNext ==
    \/ HistoryCall
    \/ HistoryFetch
    \/ HistoryReturn
    \/ Finish

Next == PipelineNext \/ HistoryNext

Spec == Init /\ [][Next]_vars

SpecPipeline == Init /\ [][PipelineNext]_vars

SpecHistory == Init /\ [][HistoryNext]_vars

\* ================================================================ claims

\* what the record passed to prepare_parasite_data must satisfy to get past
\* _validate_record
PassesChecks(r) ==
    /\ r.parasite_name /= ""
    /\ r.classification /= ""
    /\ r.location /= ""
    /\ r.metadata.type = "dict"

\* the four arguments every ledger call carries after the optional target
BaseArgs(pd) ==
    << <<pd.metadata.parasite_name>>, <<pd.metadata.classification>>,
       <<pd.metadata.location>>, pd.metadata_hash >>

\* the metadata hash a built contract_call carries: its last argument
CarriedHash(call) == call.function_args[Len(call.function_args)]

\* C1 (as claimed): a submission whose ledger client answers every attempt
\* with a transient failure ends in SubmissionFailed after exactly Tries
\* ledger attempts, and never in a success value.
C1_RetryBound ==
    (pc = "submitted" /\ ledgerMode = "transient") =>
        /\ submitted = None
        /\ raised = Some("SubmissionFailed")
        /\ Len(ledgerLog) = Tries

\* C3 (as claimed): prepare_parasite_data returns no envelope for a record
\* with version <= 0, nor for one with version > 1 and no previous_version.
C3_VersionInvariant ==
    prepared /= None =>
        /\ record.version > 0
        /\ ~(record.version > 1 /\ record.previous_version = None)

\* C4 (as claimed): whenever an update target is supplied, 0 included, the
\* ledger call is "update-parasite-record" with the target first in its
\* arguments; with no target it is "add-parasite-record" with the four
\* base arguments.
C4_AddVsUpdate ==
    contract_call /= None =>
        IF update_existing /= None
        THEN /\ contract_call[1].function_name = "update-parasite-record"
             /\ contract_call[1].function_args =
                    << <<update_existing[1]>> >> \o BaseArgs(prepared[1])
        ELSE /\ contract_call[1].function_name = "add-parasite-record"
             /\ contract_call[1].function_args = BaseArgs(prepared[1])

C6_NoFalseSuccess ==
    submitted /= None => (Len(ledgerLog) >= 1 /\ ledgerMode = "ok")

\* C8: whatever order the uploads complete in, the list handed back by
\* _process_additional_files has the length of the input and its element i
\* is the identifier of file i.
C8_UploadOrderPreserved ==
    (pc \in {"build", "prepared", "submit", "submitted"}
        /\ TruthyList(additional_files)) =>
        /\ Len(ipfs_hashes) = Len(additional_files[1])
        /\ \A i \in 1 .. Len(additional_files[1]) :
              ipfs_hashes[i] = <<"ipfs_hash_", Md5(additional_files[1][i])>>

\* C8 witness: two different files were uploaded, the second finished
\* first, and the list has been returned.
C8_Witness ==
    /\ pc = "build"
    /\ Len(completed) >= 2
    /\ completed[1] = 2
    /\ completed[2] = 1
    /\ additional_files[1][1] /= additional_files[1][2]

\* C9: a record that fails validation is validated exactly once in its
\* call, the decorated function is entered once, and the ValueError is what
\* the caller gets, with no upload started; no call runs validation twice.
C9_ValidationNotRetried ==
    /\ validations <= 1
    /\ attempts <= 1
    /\ (pc = "prepare_raised" /\ ~PassesChecks(record)) =>
          /\ validations = 1
          /\ attempts = 1
          /\ raised /= None
          /\ raised[1] \in {"ValueError: Missing required fields in parasite record",
                            "ValueError: Metadata must be a dictionary"}
          /\ futures = <<>>
          /\ prepared = None

\* C9 witness: a call with a record that fails validation has ended.
C9_Witness ==
    /\ pc = "prepare_raised"
    /\ ~PassesChecks(record)
    /\ validations = 1

RECURSIVE Lineage(_, _, _)
Lineage(st, id, fuel) ==
    IF fuel = 0 THEN <<>>
    ELSE IF st[id] = None THEN <<id>>
    ELSE <<id>> \o Lineage(st, st[id][1], fuel - 1)

\* a lineage is acyclic when it ends before it could revisit an identifier
Acyclic(st, id) == Len(Lineage(st, id, MaxId + 2)) <= MaxId + 1

\* C2 (as claimed): the walk is cut when an identifier reappears, so the
\* chain being built never holds the same identifier twice: a resolution
\* that is about to fetch an identifier already in its chain fails with
\* HistoryCorrupt instead.
C2_CycleGuard ==
    \A i, j \in 1 .. Len(history) :
        i /= j => history[i].record_id /= history[j].record_id

\* C7 (as claimed): for an acyclic lineage of depth n, a resolution that
\* returns has fetched exactly n records and returns them newest first,
\* each followed by the record its previous_version names.
C7_AcyclicHistory ==
    (pc = "history_done" /\ Acyclic(store, record_id[1])) =>
        LET ids == Lineage(store, record_id[1], MaxId + 2) IN
        /\ fetches = Len(ids)
        /\ history = [i \in 1 .. Len(ids) |-> FetchRecord(store, ids[i])]


\* the content identifier _upload_to_ipfs gives a file that is a str
ContentId(file_path) == <<"ipfs_hash_", Md5(file_path)>>

\* C11: when attachments were supplied, the envelope is assembled only after
\* every upload has finished, and its ipfs_files list, which the metadata
\* hash covers, holds the final identifier of every attachment, in order.
C11_UploadsBeforeEnvelope ==
    /\ (pc = "build" /\ TruthyList(additional_files)) =>
          \A i \in 1 .. Len(futures) : futures[i] /= None
    /\ (prepared /= None /\ TruthyList(additional_files)) =>
          /\ \A i \in 1 .. Len(futures) : futures[i] /= None
          /\ Len(futures) = Len(additional_files[1])
          /\ prepared[1].metadata.ipfs_files =
                [i \in 1 .. Len(additional_files[1]) |-> ContentId(additional_files[1][i])]
          /\ prepared[1].metadata_hash[2][4] =
                <<"ipfs_files",
                  [i \in 1 .. Len(additional_files[1]) |-> ContentId(additional_files[1][i])]>>

\* C11 witness: an envelope was built for a record with two attachments.
C11_Witness ==
    /\ pc = "prepared"
    /\ prepared /= None
    /\ TruthyList(additional_files)
    /\ Len(additional_files[1]) = 2
    /\ Len(completed) = 2


\* the records that differ from r in exactly one field of ParasiteRecord
SingleFieldVariants(r) ==
    LET others(S, v) == S \ {v} IN
    {[r EXCEPT !.parasite_name = v] :
        v \in others({"Plasmodium falciparum", "Plasmodium vivax"}, r.parasite_name)}
    \cup {[r EXCEPT !.classification = v] :
        v \in others({"Apicomplexan", "Nematode"}, r.classification)}
    \cup {[r EXCEPT !.location = v] :
        v \in others({"Sub-Saharan Africa", "South Asia"}, r.location)}
    \cup {[r EXCEPT !.metadata.prevalence = v] :
        v \in others({"high", "low"}, r.metadata.prevalence)}
    \cup {[r EXCEPT !.researcher = v] :
        v \in others({"DR_SMITH", "DR_JONES"}, r.researcher)}
    \cup {[r EXCEPT !.institution = v] :
        v \in others({"WHO_AFRICA", "CDC"}, r.institution)}
    \cup {[r EXCEPT !.status = v] : v \in others(ParasiteStatus, r.status)}
    \cup {[r EXCEPT !.version = v] : v \in others(1 .. 3, r.version)}
    \cup {[r EXCEPT !.previous_version = v] :
        v \in others({None, Some(1), Some(2)}, r.previous_version)}

\* C12 (as claimed): a record that differs from the prepared one in any
\* single field, prepared at the same timestamp with the same attachments,
\* gets a different envelope and a different metadata hash.
C12_Sensitivity ==
    pc = "prepared" =>
        \A r2 \in SingleFieldVariants(record) :
            LET e1 == Envelope(record, prepared[1].metadata.timestamp[2], ipfs_hashes)
                e2 == Envelope(r2, prepared[1].metadata.timestamp[2], ipfs_hashes)
            IN /\ e2 /= e1
               /\ MetadataHash(e2) /= MetadataHash(e1)


\* an upload of this call has finished by raising
UploadFailed ==
    \E i \in 1 .. Len(futures) : futures[i] /= None /\ ~futures[i][1].ok

\* C13: once the upload of any attachment has failed, prepare_parasite_data
\* returns neither envelope nor hash: the call ends by raising the upload's
\* exception, and no ledger call is built from it.
C13_AbortOnUploadFailure ==
    UploadFailed =>
        /\ prepared = None
        /\ ipfs_hashes = <<>>
        /\ contract_call = None
        /\ calls = <<>>
        /\ pc \in {"uploading", "prepare_raised"}
        /\ pc = "prepare_raised" => raised = Some("AttributeError")

\* C13 witness: of two uploads one succeeded and one failed, and the call
\* has ended.
C13_Witness ==
    /\ pc = "prepare_raised"
    /\ Len(completed) = 2
    /\ UploadFailed
    /\ \E i \in 1 .. Len(futures) : futures[i][1].ok


\* C14: a resolution in which a fetch failed ends by raising and hands back
\* no chain; a resolution that returns a chain made no fetch that failed, so
\* every fetch it made is in the chain.
C14_NoPartialHistory ==
    /\ pc = "history_done" => (raised = None /\ fetches = Len(history))
    /\ pc = "history_raised" => (raised /= None /\ fetches = Len(history) + 1)
    /\ (raised /= None /\ pc \in {"history_loop", "history_done", "history_raised"}) =>
          pc = "history_raised"

\* C14 witness: the fetch of the second record of a chain failed.
C14_Witness ==
    /\ pc = "history_raised"
    /\ Len(history) = 1
    /\ fetches = 2


\* C16 (as claimed): in every state after prepare_parasite_data has
\* returned, the metadata_hash of the prepared data, and with it the hash in
\* every ledger call built and in the value returned, is the hash of the
\* envelope held in the same prepared data.
C16_HashMatchesEnvelope ==
    prepared /= None =>
        /\ prepared[1].metadata_hash = MetadataHash(prepared[1].metadata)
        /\ contract_call /= None =>
              CarriedHash(contract_call[1]) = MetadataHash(prepared[1].metadata)
        /\ submitted /= None =>
              submitted[1][2] = MetadataHash(prepared[1].metadata)


\* C17 (as claimed): the walk ends only at a record whose previous_version
\* is absent: a resolution that returns has fetched the start record,
\* identifier 0 included, and put it first, each record of the chain is
\* followed by the one its previous_version names, the value 0 included,
\* and the last record has no previous_version.
C17_StopsOnlyOnAbsent ==
    /\ pc = "history_done" =>
          /\ current_id = None
          /\ Len(history) >= 1
          /\ history[1].record_id = record_id[1]
          /\ history[Len(history)].previous_version = None
    /\ \A i \in 1 .. Len(history) - 1 :
          history[i].previous_version = Some(history[i + 1].record_id)


\* C18: the pool exists only while the uploader invocation that created it
\* is in progress; once the invocation is over, by returning or by raising,
\* none of its uploads is still running and the pool is gone, so an upload
\* only ever runs on the pool of the invocation in progress.
C18_PoolScopedToInvocation ==
    /\ executor /= None => pc = "uploading"
    /\ pc /= "uploading" =>
          /\ executor = None
          /\ \A i \in 1 .. Len(futures) : futures[i] /= None
    /\ (\E i \in 1 .. Len(futures) : futures[i] = None) =>
          (executor /= None /\ pc = "uploading")

\* C18 witness: an invocation with two uploads has ended by raising.
C18_Witness ==
    /\ pc = "prepare_raised"
    /\ UploadFailed
    /\ Len(completed) = 2
    /\ executor = None


\* the coroutine of a pipeline operation is running
Running == pc \in {"validate", "uploading", "build", "submit", "history_loop"}

\* C19: no operation leaves anything behind in the pipeline: cache stays
\* empty and contract_address and contract_name stay what __init__ set, in
\* every reachable state; no step of a running operation changes them or
\* the caller's record; and every resolution starts from an empty chain, so
\* each record of the chain it returns was fetched by that same call.
C19_NoPersistentState ==
    /\ [](/\ cache = {}
          /\ contract_address = "ST1PQHQKV0RJXZFY1DGX8MNSNYVE3VGZJSRTPGZGM"
          /\ contract_name = "parasite-registry-v2"
          /\ pc = "history_done" => fetches = Len(history)
          /\ pc = "idle" => (history = <<>> /\ fetches = 0 /\ prepared = None))
    /\ [][Running => (record' = record /\ pipeVars' = pipeVars)]_vars
    /\ [][(pc = "idle" /\ pc' = "history_loop") => (history' = <<>> /\ fetches' = 0)]_vars

\* C19 witness: a resolution has returned a chain of two records, each
\* fetched by this call, and the cache is still empty.
C19_Witness ==
    /\ pc = "history_done"
    /\ Len(history) = 2
    /\ fetches = 2
    /\ cache = {}

====
